---- MODULE Spec2Model ----
(***************************************************************************)
(* sim/run.py of neorv32-vunit: the script builds a VUnit project (the     *)
(* builder calls of lines 16-33), writes vhdl_ls.toml from the project's   *)
(* libraries (_gen_vhdl_ls, lines 35-51) and hands over to VUnit's main    *)
(* (line 53).                                                              *)
(*                                                                         *)
(* Text is a sequence of one-character strings.  The project the builder   *)
(* calls produce is decided by the vunit package and by the file system,   *)
(* neither of which is part of run.py: it is an input, drawn in Init and   *)
(* the same in every run of the script.  Every call into vunit, and every  *)
(* file operation, either returns or raises.                               *)
(***************************************************************************)
EXTENDS Naturals, Sequences, FiniteSets, TLC

VARIABLES project, run, dest, pc, libs, idx, disk, failed, done, emits, before, outs

vars == <<project, run, dest, pc, libs, idx, disk, failed, done, emits, before, outs>>

(* ------------------------------ bounds --------------------------------- *)

MaxLibs == 2
MaxFiles == 2
MaxRuns == 2

(* ---------------------------- characters ------------------------------- *)

BS == "\\"
QT == "\""
NL == "\n"
SL == "/"
SP == " "

RECURSIVE Concat(_)
Concat(ss) == IF ss = <<>> THEN <<>> ELSE Head(ss) \o Concat(Tail(ss))

(* ------------------------------ inputs --------------------------------- *)

\* library names: identifiers, as VHDL library names are
LibNames == { <<"n","e","o","r","v","3","2">>, <<"o","s","v","v","m">>, <<"l","i","b">> }

\* stored source file paths: one with the Windows separator, one with the
\* POSIX separator and a character that JSON has to escape
Paths == { <<"r", BS, "a">>, <<"q", SL, QT>> }

FileLists == UNION { [1..k -> Paths] : k \in 0..MaxFiles }

NameSeqs == { ns \in UNION { [1..k -> LibNames] : k \in 0..MaxLibs } :
                \A i, j \in 1..Len(ns) : ns[i] = ns[j] => i = j }

RECURSIVE TotalFiles(_)
TotalFiles(fl) == IF fl = <<>> THEN 0 ELSE Len(Head(fl)) + TotalFiles(Tail(fl))

\* a project: at most MaxLibs libraries of distinct names, in the project's
\* order, holding at most MaxFiles source files between them
Projects == UNION { { [i \in 1..Len(ns) |-> [name |-> ns[i], files |-> fl[i]]] :
                        fl \in { f \in [1..Len(ns) -> FileLists] : TotalFiles(f) <= MaxFiles } } :
                    ns \in NameSeqs }

\* the places a checkout's parent / 'vhdl_ls.toml' can be
Dests == { "d1", "d2" }

(* ------------------------- _gen_vhdl_ls, pure -------------------------- *)

\* s sorts before t, character by character in code point order
CodePoints == <<"-","0","1","2","3","4","5","6","7","8","9","_","a","b","c","d","e","f",
                "g","h","i","j","k","l","m","n","o","p","q","r","s","t","u","v","w","x",
                "y","z">>

CodePoint(c) == CHOOSE n \in 1..Len(CodePoints) : CodePoints[n] = c

RECURSIVE NameLess(_, _)
NameLess(s, t) ==
    IF t = <<>> THEN FALSE
    ELSE IF s = <<>> THEN TRUE
    ELSE IF Head(s) = Head(t) THEN NameLess(Tail(s), Tail(t))
    ELSE CodePoint(Head(s)) < CodePoint(Head(t))

\* mutant of GetLibraries: the libraries sorted by name
GetLibrariesSorted(proj) ==
    [i \in 1..Len(proj) |->
        CHOOSE l \in {proj[k] : k \in 1..Len(proj)} :
            Cardinality({k \in 1..Len(proj) : NameLess(proj[k].name, l.name)}) = i - 1]

\* vu._project.get_libraries(): the libraries in the order the project gives them
GetLibraries(proj) == proj

\* mutant of NormPath: the path as stored
NormPathKept(s) == s

\* str(file).replace('\\', '/')
NormPath(s) == [i \in 1..Len(s) |-> IF s[i] = BS THEN SL ELSE s[i]]

\* the list comprehension of line 48
NormFiles(files) == [i \in 1..Len(files) |-> NormPath(files[i])]

\* mutant of JsonEscape: no character is escaped
JsonEscapeNone(c) == <<c>>

\* json.dumps of one character of a string (ASCII)
JsonEscape(c) == IF c = QT THEN <<BS, QT>>
                 ELSE IF c = BS THEN <<BS, BS>>
                 ELSE IF c = NL THEN <<BS, "n">>
                 ELSE <<c>>

\* json.dumps of a string
JsonString(s) == <<QT>> \o Concat([i \in 1..Len(s) |-> JsonEscape(s[i])]) \o <<QT>>

\* json.dumps(files, indent=4)
JsonDumps(files) ==
    IF files = <<>> THEN <<"[", "]">>
    ELSE <<"[">>
         \o Concat([i \in 1..Len(files) |->
                      (IF i = 1 THEN <<NL>> ELSE <<",", NL>>)
                      \o <<SP, SP, SP, SP>> \o JsonString(files[i])])
         \o <<NL, "]">>

\* f"[libraries.{lib.name}]\n"
HeaderLine(name) == <<"[","l","i","b","r","a","r","i","e","s",".">> \o name \o <<"]", NL>>

\* f"files = {json.dumps(files, indent=4)}\n"
FilesLine(files) == <<"f","i","l","e","s",SP,"=",SP>> \o JsonDumps(NormFiles(files)) \o <<NL>>

\* mutant of Opened: the file is opened for appending
OpenedAppending(old) == old

\* open(path, "w") on a file holding old: what the file holds once opened
Opened(old) == <<>>

(* ------------------------------ the script ----------------------------- *)

BuilderOps == { "construct", "add_library", "add_source_files", "test_bench",
                "set_generic", "set_sim_option_1", "set_sim_option_2" }

\* a call returns: the script goes on with the next statement
Return(step, next) ==
    /\ pc' = next
    /\ done' = done \cup {step}
    /\ failed' = failed

\* mutant of Raise: the exception is swallowed and the script goes on
RaiseSwallowed(step, next) ==
    /\ pc' = next
    /\ failed' = step
    /\ done' = done

\* a call raises: nothing catches it, the script ends
Raise(step, next) ==
    /\ pc' = "aborted"
    /\ failed' = step
    /\ done' = done

Init ==
    /\ project \in Projects
    /\ run = 1
    /\ dest = "d1"
    /\ pc = "construct"
    /\ libs = <<>>
    /\ idx = 0
    /\ disk = [d \in Dests |-> <<>>]
    /\ failed = "none"
    /\ done = {}
    /\ emits = 0
    /\ before = <<>>
    /\ outs = {}

\* lines 16-20: VUnit.from_args and the add_* calls for the built-in libraries
Construct ==
    /\ pc = "construct"
    /\ \/ Return("construct", "add_library")
       \/ Raise("construct", "add_library")
    /\ UNCHANGED <<project, run, dest, libs, idx, disk, emits, before, outs>>

\* line 24: NEORV32 = PRJ.add_library("neorv32")
CreateLibrary ==
    /\ pc = "add_library"
    /\ \/ Return("add_library", "add_source_files")
       \/ Raise("add_library", "add_source_files")
    /\ UNCHANGED <<project, run, dest, libs, idx, disk, emits, before, outs>>

\* lines 25-28: NEORV32.add_source_files([...])
AddSources ==
    /\ pc = "add_source_files"
    /\ \/ Return("add_source_files", "test_bench")
       \/ Raise("add_source_files", "test_bench")
    /\ UNCHANGED <<project, run, dest, libs, idx, disk, emits, before, outs>>

\* line 30: NEORV32.test_bench("neorv32_vunit_tb")
RegisterTestBench ==
    /\ pc = "test_bench"
    /\ \/ Return("test_bench", "set_generic")
       \/ Raise("test_bench", "set_generic")
    /\ UNCHANGED <<project, run, dest, libs, idx, disk, emits, before, outs>>

\* line 30: .set_generic("ci_mode", args.ci_mode)
SetGeneric ==
    /\ pc = "set_generic"
    /\ \/ Return("set_generic", "set_sim_option_1")
       \/ Raise("set_generic", "set_sim_option_1")
    /\ UNCHANGED <<project, run, dest, libs, idx, disk, emits, before, outs>>

\* lines 32 and 33: PRJ.set_sim_option(...), twice
SetSimOption ==
    /\ \/ /\ pc = "set_sim_option_1"
          /\ \/ Return("set_sim_option_1", "set_sim_option_2")
             \/ Raise("set_sim_option_1", "set_sim_option_2")
       \/ /\ pc = "set_sim_option_2"
          /\ \/ Return("set_sim_option_2", "gen_vhdl_ls")
             \/ Raise("set_sim_option_2", "gen_vhdl_ls")
    /\ UNCHANGED <<project, run, dest, libs, idx, disk, emits, before, outs>>

\* line 51 and lines 40-43: _gen_vhdl_ls(PRJ) is entered and reads the libraries
EnterGenVhdlLs ==
    /\ pc = "gen_vhdl_ls"
    /\ emits' = emits + 1
    /\ \/ /\ Return("get_libraries", "open")
          /\ libs' = GetLibraries(project)
       \/ /\ Raise("get_libraries", "open")
          /\ libs' = libs
    /\ UNCHANGED <<project, run, dest, idx, disk, before, outs>>

\* line 45, open(..., "w") returns: the file is empty now
OpenFile ==
    /\ pc = "open"
    /\ Return("open", "header")
    /\ disk' = [disk EXCEPT ![dest] = Opened(@)]
    /\ idx' = 1
    /\ UNCHANGED <<project, run, dest, libs, emits, before, outs>>

\* mutant of OpenFails: the file is emptied before the open raises
OpenFailsTruncating ==
    /\ pc = "open"
    /\ Raise("open", "header")
    /\ disk' = [disk EXCEPT ![dest] = <<>>]
    /\ UNCHANGED <<project, run, dest, libs, idx, emits, before, outs>>

\* line 45, open(..., "w") raises: the file is as it was
OpenFails ==
    /\ pc = "open"
    /\ Raise("open", "header")
    /\ UNCHANGED <<project, run, dest, libs, idx, disk, emits, before, outs>>

\* line 47: the section header of libs[idx]; a write that raises adds nothing
WriteHeader ==
    /\ pc = "header"
    /\ idx <= Len(libs)
    /\ \/ /\ Return("write", "files")
          /\ disk' = [disk EXCEPT ![dest] = @ \o HeaderLine(libs[idx].name)]
       \/ /\ Raise("write", "files")
          /\ disk' = disk
    /\ UNCHANGED <<project, run, dest, libs, idx, emits, before, outs>>

\* lines 48-49: the file list of libs[idx]; then the next library
WriteFiles ==
    /\ pc = "files"
    /\ \/ /\ Return("write", "header")
          /\ disk' = [disk EXCEPT ![dest] = @ \o FilesLine(libs[idx].files)]
          /\ idx' = idx + 1
       \/ /\ Raise("write", "header")
          /\ disk' = disk
          /\ idx' = idx
    /\ UNCHANGED <<project, run, dest, libs, emits, before, outs>>

\* the for loop is over, the with block closes the file, _gen_vhdl_ls returns
CloseFile ==
    /\ pc = "header"
    /\ idx > Len(libs)
    /\ Return("gen_vhdl_ls", "main")
    /\ outs' = outs \cup {disk[dest]}
    /\ UNCHANGED <<project, run, dest, libs, idx, disk, emits, before>>

\* line 53: PRJ.main()
Main ==
    /\ pc = "main"
    /\ \/ Return("main", "done")
       \/ Raise("main", "done")
    /\ UNCHANGED <<project, run, dest, libs, idx, disk, emits, before, outs>>

\* the script is run again, from the same or another checkout, on the same
\* sources
NewRun ==
    /\ pc \in {"done", "aborted"}
    /\ run < MaxRuns
    /\ run' = run + 1
    /\ \E d \in Dests :
          /\ dest' = d
          /\ before' = disk[d]
    /\ pc' = "construct"
    /\ libs' = <<>>
    /\ idx' = 0
    /\ failed' = "none"
    /\ done' = {}
    /\ emits' = 0
    /\ UNCHANGED <<project, disk, outs>>

Next ==
    \/ Construct
    \/ CreateLibrary
    \/ AddSources
    \/ RegisterTestBench
    \/ SetGeneric
    \/ SetSimOption
    \/ EnterGenVhdlLs
    \/ OpenFile
    \/ OpenFails
    \/ WriteHeader
    \/ WriteFiles
    \/ CloseFile
    \/ Main
    \/ NewRun

Spec == Init /\ [][Next]_vars

(* --------------------- a reader of the written file -------------------- *)
(* The TOML reader the artifact is written for, for the part of TOML the   *)
(* artifact uses: [libraries.<bare key>] tables holding one key, files, an *)
(* array of basic strings.                                                 *)

BareKeyChars == { "a","b","c","d","e","f","g","h","i","j","k","l","m","n","o","p","q",
                  "r","s","t","u","v","w","x","y","z","0","1","2","3","4","5","6","7",
                  "8","9","_","-" }

NoRead == [ok |-> FALSE, val |-> <<>>, next |-> 0]

StartsWith(t, i, lit) ==
    /\ i + Len(lit) - 1 <= Len(t)
    /\ \A k \in 1..Len(lit) : t[i + k - 1] = lit[k]

\* a basic string from after its opening quote: escapes decoded, a raw line
\* break or an escape TOML does not define refused
RECURSIVE ReadString(_, _, _)
ReadString(t, i, acc) ==
    IF i > Len(t) THEN NoRead
    ELSE IF t[i] = QT THEN [ok |-> TRUE, val |-> acc, next |-> i + 1]
    ELSE IF t[i] = NL THEN NoRead
    ELSE IF t[i] = BS THEN
        IF i + 1 > Len(t) THEN NoRead
        ELSE IF t[i + 1] = QT THEN ReadString(t, i + 2, Append(acc, QT))
        ELSE IF t[i + 1] = BS THEN ReadString(t, i + 2, Append(acc, BS))
        ELSE IF t[i + 1] = "n" THEN ReadString(t, i + 2, Append(acc, NL))
        ELSE NoRead
    ELSE ReadString(t, i + 1, Append(acc, t[i]))

RECURSIVE SkipWs(_, _)
SkipWs(t, i) == IF i <= Len(t) /\ t[i] \in {SP, NL} THEN SkipWs(t, i + 1) ELSE i

\* an array of strings from after its opening bracket
RECURSIVE ReadArray(_, _, _)
ReadArray(t, i, acc) ==
    LET j == SkipWs(t, i) IN
    IF j > Len(t) THEN NoRead
    ELSE IF t[j] = "]" THEN [ok |-> TRUE, val |-> acc, next |-> j + 1]
    ELSE IF t[j] # QT THEN NoRead
    ELSE LET s == ReadString(t, j + 1, <<>>)
             k == SkipWs(t, s.next)
         IN  IF ~s.ok \/ k > Len(t) THEN NoRead
             ELSE IF t[k] = "," THEN ReadArray(t, k + 1, Append(acc, s.val))
             ELSE IF t[k] = "]" THEN [ok |-> TRUE, val |-> Append(acc, s.val), next |-> k + 1]
             ELSE NoRead

\* a bare key up to the closing bracket of a table header
RECURSIVE ReadKey(_, _, _)
ReadKey(t, i, acc) ==
    IF i > Len(t) THEN NoRead
    ELSE IF t[i] = "]" THEN [ok |-> acc # <<>>, val |-> acc, next |-> i + 1]
    ELSE IF t[i] \in BareKeyChars THEN ReadKey(t, i + 1, Append(acc, t[i]))
    ELSE NoRead

\* the tables from position i on: the libraries in the order of the file, or
\* not ok when the text is not such a document or names a table twice
RECURSIVE ReadTables(_, _, _)
ReadTables(t, i, acc) ==
    IF i > Len(t) THEN [ok |-> TRUE, val |-> acc, next |-> i]
    ELSE IF ~StartsWith(t, i, <<"[","l","i","b","r","a","r","i","e","s",".">>) THEN NoRead
    ELSE LET key == ReadKey(t, i + 11, <<>>) IN
         IF ~key.ok \/ ~StartsWith(t, key.next, <<NL,"f","i","l","e","s",SP,"=",SP,"[">>)
            \/ \E n \in 1..Len(acc) : acc[n].name = key.val
         THEN NoRead
         ELSE LET arr == ReadArray(t, key.next + 10, <<>>) IN
              IF ~arr.ok \/ ~StartsWith(t, arr.next, <<NL>>) THEN NoRead
              ELSE ReadTables(t, arr.next + 1,
                              Append(acc, [name |-> key.val, files |-> arr.val]))

ReadToml(t) == ReadTables(t, 1, <<>>)

\* _gen_vhdl_ls has returned in this run: the file at dest is the artifact
Emitted == "gen_vhdl_ls" \in done

Artifact == ReadToml(disk[dest])

(* ------------------------------- claims -------------------------------- *)

\* path s with every backslash turned into a forward slash
Slashed(s) == [k \in 1..Len(s) |-> IF s[k] = "\\" THEN "/" ELSE s[k]]

\* C2, as stated: once emit has returned, reading the artifact back gives the
\* project's own libraries, each with its file list as stored, in order.
C2_RoundTripAsStored ==
    Emitted => LET art == Artifact IN art.ok /\ art.val = project

\* C2, amended: once emit has returned, reading the artifact back gives one
\* entry per library of the project, under the library's name, whose file list
\* is the library's file list in the same order with every backslash of a path
\* turned into a forward slash; also for a library without files.
C2_RoundTripNormalized ==
    Emitted =>
        LET art == Artifact IN
        /\ art.ok
        /\ art.val = [i \in 1..Len(project) |->
                        [name  |-> project[i].name,
                         files |-> [j \in 1..Len(project[i].files) |->
                                      Slashed(project[i].files[j])]]]

\* a project with a library without files and a library with two different
\* files, one of them needing a JSON escape, has been emitted
C2_Witness ==
    /\ Emitted
    /\ \E i \in 1..Len(project) : project[i].files = <<>>
    /\ \E i \in 1..Len(project) :
          /\ Len(project[i].files) = 2
          /\ project[i].files[1] # project[i].files[2]
          /\ \E j \in 1..2 : \E k \in 1..Len(project[i].files[j]) :
                project[i].files[j][k] = QT

\* C4: every path of the artifact is free of backslashes, and is the stored path
\* of the same library and position except where that one has a backslash.
C4_ForwardSlashOnly ==
    Emitted =>
        LET art == Artifact
            read == art.val
        IN
        /\ art.ok
        /\ Len(read) = Len(project)
        /\ \A i \in 1..Len(project) :
              /\ Len(read[i].files) = Len(project[i].files)
              /\ \A j \in 1..Len(project[i].files) :
                    LET e == read[i].files[j]
                        p == project[i].files[j]
                    IN  /\ Len(e) = Len(p)
                        /\ \A k \in 1..Len(p) :
                              /\ e[k] # BS
                              /\ p[k] # BS => e[k] = p[k]
                              /\ p[k] = BS => e[k] = SL

\* a project storing one path with backslashes and one with forward slashes
\* has been emitted
C4_Witness ==
    /\ Emitted
    /\ \E i \in 1..Len(project) : \E j \in 1..Len(project[i].files) :
          \E k \in 1..Len(project[i].files[j]) : project[i].files[j][k] = BS
    /\ \E i \in 1..Len(project) : \E j \in 1..Len(project[i].files) :
          \E k \in 1..Len(project[i].files[j]) : project[i].files[j][k] = SL

\* C5: the artifact holds one section per library of the project, under the
\* library's name, in the order of the project's libraries, each header directly
\* followed by a file list (the reader accepts nothing else).
C5_SectionsInProjectOrder ==
    Emitted =>
        LET art == Artifact
            read == art.val
        IN
        /\ art.ok
        /\ [i \in 1..Len(read) |-> read[i].name]
              = [i \in 1..Len(project) |-> project[i].name]

\* two libraries whose order in the project is not the alphabetical one have
\* been emitted
C5_Witness ==
    /\ Emitted
    /\ Len(project) >= 2
    /\ NameLess(project[2].name, project[1].name)

\* C1: every emit that has returned, in whichever run and to whichever
\* destination, has left the same bytes in its file: the project being the same,
\* no two emitted artifacts differ.
C1_EmitDeterministic == Cardinality(outs) <= 1

\* the script has been run a second time on a destination that held the
\* artifact of the first run, and emit has returned again
C1_Witness ==
    /\ run = 2
    /\ Emitted
    /\ before # <<>>
    /\ before \in outs
    /\ disk[dest] # <<>>

\* C9: in a run, emit is entered at most once, and only when every builder
\* operation has returned; when a builder operation has raised, the run is over,
\* emit has not been entered and the file at the destination is as the run found it.
C9_EmitOnlyAfterBuilder ==
    /\ emits <= 1
    /\ emits = 1 => (BuilderOps \subseteq done /\ failed \notin BuilderOps)
    /\ failed \in BuilderOps => (pc = "aborted" /\ emits = 0 /\ disk[dest] = before)

\* a run in which every builder operation returned and emit wrote a non-empty
\* artifact has ended
C9_Witness ==
    /\ pc = "done"
    /\ emits = 1
    /\ BuilderOps \subseteq done
    /\ disk[dest] # <<>>

IsPrefixOf(a, b) == Len(a) <= Len(b) /\ \A k \in 1..Len(a) : a[k] = b[k]

\* C10, as stated: when emit fails, at the open or at a write, with the
\* destination holding the artifact of a successful run, the destination holds
\* that artifact afterwards.
C10_FailedEmitKeepsArtifact ==
    (pc = "aborted" /\ failed \in {"open", "write"} /\ before \in outs)
        => disk[dest] = before

\* C10, amended: when the open fails the run is over and the file is as the run
\* found it; when a write fails the run is over and the file holds what was
\* written until then, a prefix of the artifact.
C10_FailedOpenKeepsArtifact ==
    /\ failed \in {"open", "write"} => pc = "aborted"
    /\ (pc = "aborted" /\ failed = "open") => disk[dest] = before
    /\ (pc = "aborted" /\ failed = "write") => \A o \in outs : IsPrefixOf(disk[dest], o)

\* the open has failed on a destination holding the artifact of a successful run
C10_Witness ==
    /\ pc = "aborted"
    /\ failed = "open"
    /\ before \in outs
    /\ before # <<>>

====
